---- MODULE Spec2Model ----
(***************************************************************************)
(* Model of hearkit/baseline.py: load_model, frame_audio and               *)
(* get_audio_embedding, as a caller drives them one call after another on  *)
(* one model object.                                                       *)
(*                                                                         *)
(* Tensors are records [shape, device, data] with data a nested sequence.  *)
(* Hop sizes and timestamps are exact rationals [num, den]; float rounding *)
(* error is outside the model.  The numeric pipeline of forward() is kept  *)
(* as uninterpreted row-wise terms: every torch operation in it acts on    *)
(* the last dimension of its input, one row at a time.                     *)
(***************************************************************************)
EXTENDS Integers, Sequences, FiniteSets, TLC

\* ------------------------------------------------------------------ bounds
MaxR == 2
MaxS == 2
MaxFrameSize == 3
MaxBatchSize == 3
MaxCalls == 2
MaxFrames == 24

\* ------------------------------------------------- class attributes (16-25)
RandomProjectionMelEmbedding_sample_rate == 44100
RandomProjectionMelEmbedding_embedding_size == 4096
RandomProjectionMelEmbedding_n_fft == 4096
RandomProjectionMelEmbedding_n_mels == 256
RandomProjectionMelEmbedding_seed == 0
RandomProjectionMelEmbedding_epsilon == [num |-> 1, den |-> 10000]

\* ------------------------------------------------------------ small helpers
Min(a, b) == IF a <= b THEN a ELSE b
Max(a, b) == IF a >= b THEN a ELSE b

Zeros(n) == [i \in 1..n |-> 0]

\* Python's round() on the exact quotient num/den (den > 0, num >= 0):
\* nearest integer, ties to the even neighbour.
round(num, den) ==
    LET q == num \div den
        r == num % den
    IN  IF 2 * r < den THEN q
        ELSE IF 2 * r > den THEN q + 1
        ELSE IF q % 2 = 0 THEN q ELSE q + 1

\* ------------------------------------------------------------------ tensors
Rank(t) == Len(t.shape)

\* Padding with the two amounts the wrong way round.
F_pad_swapped(t, left, right) ==
    LET padrow(row) == Zeros(right) \o row \o Zeros(left)
    IN  [shape |-> [t.shape EXCEPT ![Len(t.shape)] = @ + left + right],
         device |-> t.device,
         data |-> IF Len(t.shape) = 1 THEN padrow(t.data)
                  ELSE IF Len(t.shape) = 2
                       THEN [i \in 1..t.shape[1] |-> padrow(t.data[i])]
                  ELSE [i \in 1..t.shape[1] |->
                          [j \in 1..t.shape[2] |-> padrow(t.data[i][j])]]]

\* F.pad(t, (left, right)): constant zero padding of the last dimension.
F_pad(t, left, right) ==
    LET padrow(row) == Zeros(left) \o row \o Zeros(right)
        last == t.shape[Rank(t)]
        shape == [t.shape EXCEPT ![Rank(t)] = last + left + right]
    IN  [shape |-> shape,
         device |-> t.device,
         data |-> IF Rank(t) = 1 THEN padrow(t.data)
                  ELSE IF Rank(t) = 2
                       THEN [i \in 1..t.shape[1] |-> padrow(t.data[i])]
                  ELSE [i \in 1..t.shape[1] |->
                          [j \in 1..t.shape[2] |-> padrow(t.data[i][j])]]]

\* t[:, start:stop] for 0 <= start: a Python slice of dimension 1, clamped to
\* the dimension's size.
SliceDim1(t, start, stop) ==
    LET d1 == t.shape[2]
        lo == Min(start, d1)
        hi == Max(lo, Min(stop, d1))
    IN  [shape |-> [t.shape EXCEPT ![2] = hi - lo],
         device |-> t.device,
         data |-> [i \in 1..t.shape[1] |-> SubSeq(t.data[i], lo + 1, hi)]]

\* torch.stack(list, dim=1) of a non-empty list of equally shaped tensors of
\* rank >= 2: the new dimension goes right after dimension 0.
StackOk(list) == \A k \in 1..Len(list) : list[k].shape = list[1].shape

torch_stack(list) ==
    LET s == list[1].shape
    IN  [shape |-> <<s[1], Len(list)>> \o SubSeq(s, 2, Len(s)),
         device |-> list[1].device,
         data |-> [i \in 1..s[1] |-> [k \in 1..Len(list) |-> list[k].data[i]]]]

\* A flattening that runs through the frames first and the recordings second.
flatten_frame_major(t) ==
    LET R == t.shape[1]
        F == t.shape[2]
    IN  [shape |-> <<R * F, t.shape[3]>>,
         device |-> t.device,
         data |-> [i \in 1..(R * F) |->
                     t.data[((i - 1) % R) + 1][((i - 1) \div R) + 1]]]

\* t.flatten(end_dim=1) of a tensor of rank 3: row r*F + f is t[r, f].
flatten(t) ==
    LET R == t.shape[1]
        F == t.shape[2]
    IN  [shape |-> <<R * F, t.shape[3]>>,
         device |-> t.device,
         data |-> [i \in 1..(R * F) |->
                     t.data[((i - 1) \div F) + 1][((i - 1) % F) + 1]]]

\* torch.cat(list, dim=0) of a non-empty list of (N_i x E) tensors.
RECURSIVE CatData(_)
CatData(list) ==
    IF list = <<>> THEN <<>> ELSE Head(list).data \o CatData(Tail(list))

torch_cat(list) ==
    [shape |-> <<Len(CatData(list)), list[1].shape[2]>>,
     device |-> list[1].device,
     data |-> CatData(list)]

\* t.unflatten(0, (R, F)) of an (N x E) tensor with N = R * F.
unflatten(t, R, F) ==
    [shape |-> <<R, F, t.shape[2]>>,
     device |-> t.device,
     data |-> [r \in 1..R |-> [f \in 1..F |-> t.data[(r - 1) * F + f]]]]

\* ------------------------------------------------------------ model objects
\* A Python object passed as `model`: the classes it is an instance of, the
\* attributes it exposes, and the state of a RandomProjectionMelEmbedding.
NoBuffer == [op |-> "none", args |-> <<>>]

\* RandomProjectionMelEmbedding.__init__ for a class (or subclass) with the
\* given class attributes; a fresh torch.nn.Module is in training mode, on
\* the cpu.
RandomProjectionMelEmbedding_init(bases, sr, es, nfft, nmels) ==
    [bases |-> bases,
     attrs |-> {"sample_rate", "embedding_size", "n_fft", "forward"},
     sample_rate |-> sr,
     embedding_size |-> es,
     n_fft |-> nfft,
     n_mels |-> nmels,
     window |-> [op |-> "hann_window", args |-> <<nfft>>],
     mel_scale |-> [op |-> "librosa.filters.mel", args |-> <<sr, nfft, nmels>>],
     projection |-> [op |-> "rand/sqrt(n_mels)",
                     args |-> <<RandomProjectionMelEmbedding_seed, nmels, es>>],
     training |-> TRUE,
     device |-> "cpu"]

\* Module.to(device): moves parameters and buffers in place; values are kept.
Module_to_reinit(m, device) ==
    [m EXCEPT !.device = device,
              !.projection = [op |-> "rand/sqrt(n_mels)",
                              args |-> <<RandomProjectionMelEmbedding_seed + 1,
                                         m.n_mels, m.embedding_size>>]]

Module_to(m, device) == [m EXCEPT !.device = device]

\* Module.eval(): clears the training flag.
Module_eval(m) == [m EXCEPT !.training = FALSE]

\* The embedding contract of the specification: frame length, sample rate
\* and the embed operation.
ExposesContract(m) == {"sample_rate", "n_fft", "forward"} \subseteq m.attrs

\* A check by attributes instead of by class.
hasattr_contract(m) == ExposesContract(m)

\* isinstance(model, RandomProjectionMelEmbedding)
isinstance_RandomProjectionMelEmbedding(m) ==
    "RandomProjectionMelEmbedding" \in m.bases

\* forward(x) on an (N x n) batch: each line of the method acts on rows
\* independently, so row i of the result is a term over row i of x and the
\* model's three buffers.  The result is (N x embedding columns of projection).
forward_row(m, row) ==
    LET windowed == [op |-> "mul", x |-> row, w |-> m.window]
        spectrum == [op |-> "rfft", x |-> windowed]
        power == [op |-> "abs**2", x |-> spectrum]
        mel == [op |-> "matmul_T", x |-> power, w |-> m.mel_scale]
        logmel == [op |-> "log", x |-> mel,
                   eps |-> RandomProjectionMelEmbedding_epsilon]
    IN  [op |-> "matmul", x |-> logmel, w |-> m.projection]

forward(m, x) ==
    [shape |-> <<x.shape[1], m.projection.args[3]>>,
     device |-> x.device,
     data |-> [i \in 1..x.shape[1] |-> forward_row(m, x.data[i])]]

\* ---------------------------------------------------------------- exceptions
ValueError_audio ==
    [exc |-> "ValueError",
     msg |-> "audio input tensor must be 2D with shape (batch_size, num_samples)"]
ValueError_model ==
    [exc |-> "ValueError",
     msg |-> "Model must be an instance of RandomProjectionMelEmbedding"]
NotImplementedError_load ==
    [exc |-> "NotImplementedError",
     msg |-> "Loading model weights not implemented yet"]
IndexError_shape == [exc |-> "IndexError", msg |-> "tuple index out of range"]
RuntimeError_cat ==
    [exc |-> "RuntimeError", msg |-> "torch.cat(): expected a non-empty list of Tensors"]
RuntimeError_stack ==
    [exc |-> "RuntimeError", msg |-> "stack expects each tensor to be equal size"]
NoExc == [exc |-> "none", msg |-> ""]

\* The spec's names for the two conditions get_audio_embedding raises.
InvalidInput == ValueError_audio
TypeMismatch == ValueError_model

\* -------------------------------------------------------------------- inputs
\* Audio whose samples are pairwise distinct and non-zero (sample i of
\* recording r is 100*r + i), so that a misplaced or padded sample shows.
Audio1(S) ==
    [shape |-> <<S>>, device |-> "cpu", data |-> [i \in 1..S |-> i]]
Audio2(R, S, dev) ==
    [shape |-> <<R, S>>, device |-> dev,
     data |-> [r \in 1..R |-> [i \in 1..S |-> 100 * r + i]]]
Audio3(A, B, S) ==
    [shape |-> <<A, B, S>>, device |-> "cpu",
     data |-> [a \in 1..A |-> [b \in 1..B |-> [i \in 1..S |-> 100 * b + i]]]]

\* 1.1 s of audio at 44100 Hz (docstring of get_audio_embedding, 162-165).
ExampleAudio == Audio2(1, 48510, "cpu")
Quarter == [num |-> 1, den |-> 4]

Rank2Audios == {Audio2(R, S, "cpu") : R \in 0..MaxR, S \in 0..MaxS}
OtherRankAudios ==
    {Audio1(S) : S \in {0, MaxS}}
        \cup {Audio3(1, B, 1) : B \in {1, MaxFrameSize}}

\* Hop sizes in seconds, chosen against the 44100 Hz the driver frames at:
\* half a sample (rounding ties), one sample, two samples.
Hops == {[num |-> 1, den |-> 88200], [num |-> 1, den |-> 44100],
         [num |-> 1, den |-> 22050]}

\* (sample_rate, hop_size) pairs for frame_audio called on its own.
Rates == {<<44100, h>> : h \in Hops}
             \cup {<<1, [num |-> 1, den |-> 2]>>, <<3, Quarter>>}

Devices == {"cpu", "cuda:0"}

\* What get_audio_embedding is called with: (audio, hop_size).
EmbeddingInputs ==
    ((Rank2Audios \cup OtherRankAudios \cup {Audio2(1, 1, "cuda:0")}) \X Hops)
        \cup {<<ExampleAudio, Quarter>>}

\* What frame_audio is called with: (audio, sample_rate, hop_size).
FramingInputs ==
    {<<a, sh[1], sh[2]>> : a \in Rank2Audios \cup OtherRankAudios, sh \in Rates}
        \cup {<<ExampleAudio, 44100, Quarter>>}

\* Objects a caller may hold as `model`: the instance load_model builds, an
\* instance of a subclass that overrides the class attributes, an object of
\* an unrelated class that exposes the same attributes, and None.
DefaultModel ==
    RandomProjectionMelEmbedding_init(
        {"RandomProjectionMelEmbedding", "Module"},
        RandomProjectionMelEmbedding_sample_rate,
        RandomProjectionMelEmbedding_embedding_size,
        RandomProjectionMelEmbedding_n_fft,
        RandomProjectionMelEmbedding_n_mels)
SubclassModel ==
    RandomProjectionMelEmbedding_init(
        {"SmallEmbedding", "RandomProjectionMelEmbedding", "Module"},
        22050, 3, 2, 2)
DuckModel ==
    [RandomProjectionMelEmbedding_init({"OtherEmbedding", "Module"}, 44100, 3, 2, 2)
        EXCEPT !.training = FALSE]
NoneObject ==
    [bases |-> {"NoneType"}, attrs |-> {},
     sample_rate |-> 0, embedding_size |-> 0, n_fft |-> 0, n_mels |-> 0,
     window |-> NoBuffer, mel_scale |-> NoBuffer, projection |-> NoBuffer,
     training |-> FALSE, device |-> "none"]
ModelObjects == {SubclassModel, DuckModel, NoneObject}

\* --------------------------------------------------------------------- state
VARIABLES
    pc,             \* where the running call is: "idle", "frame_audio",
                    \* "frame_audio_return", "batching", "embed", "done"
    call,           \* the running call and its arguments
    model,          \* the model object the caller holds
    constructed,    \* that object as it was when the caller got it
    fa,             \* locals of frame_audio
    gae,            \* locals of get_audio_embedding
    result,         \* what the call returned or raised
    forward_calls,  \* invocations of model(...) in the running call
    ncalls          \* calls completed

vars == <<pc, call, model, constructed, fa, gae, result, forward_calls, ncalls>>

NoTensor == [shape |-> <<>>, device |-> "none", data |-> <<>>]
NoHop == [num |-> 0, den |-> 1]

NoCall ==
    [op |-> "none", audio |-> NoTensor, hop_size |-> NoHop, batch_size |-> 0,
     frame_size |-> 0, sample_rate |-> 0, model_file_path |-> "", device |-> "none"]

FaNone ==
    [audio |-> NoTensor, num_padded_samples |-> 0, frame_number |-> 0,
     frames |-> <<>>, timestamps |-> <<>>, frame_start |-> 0, frame_end |-> 0,
     frame_size |-> 0, hop_size |-> NoHop, sample_rate |-> 0]

GaeNone ==
    [frames |-> NoTensor, timestamps |-> <<>>, audio_batches |-> 0,
     num_frames |-> 0, frame_size |-> 0, loader |-> <<>>, pos |-> 0,
     embeddings_list |-> <<>>]

NoResult ==
    [kind |-> "none", exc |-> NoExc, model |-> NoneObject, tensor |-> NoTensor,
     timestamps |-> <<>>]
Raise(e) == [NoResult EXCEPT !.kind = "raise", !.exc = e]
ReturnModel(m) == [NoResult EXCEPT !.kind = "return", !.model = m]
ReturnTensors(t, ts) ==
    [NoResult EXCEPT !.kind = "return", !.tensor = t, !.timestamps = ts]

Init ==
    /\ pc = "idle"
    /\ call = NoCall
    /\ model \in ModelObjects
    /\ constructed = model
    /\ fa = FaNone
    /\ gae = GaeNone
    /\ result = NoResult
    /\ forward_calls = 0
    /\ ncalls = 0

\* ---------------------------------------------------------------- load_model
\* load_model that ignores the path.
load_model_ignore_path(model_file_path, device) ==
    ReturnModel(Module_to(DefaultModel, device))

load_model(model_file_path, device) ==
    IF model_file_path = ""
    THEN ReturnModel(Module_to(DefaultModel, device))
    ELSE Raise(NotImplementedError_load)

LoadModel ==
    /\ pc = "idle"
    /\ ncalls < MaxCalls
    /\ \E path \in {"", "weights.pt"}, device \in Devices :
          /\ call' = [NoCall EXCEPT !.op = "load_model",
                                    !.model_file_path = path, !.device = device]
          /\ result' = load_model(path, device)
    /\ pc' = "done"
    /\ UNCHANGED <<model, constructed, fa, gae, forward_calls, ncalls>>

\* --------------------------------------------------------------- frame_audio
\* Lines 117-124: pad, read the padded length, set up the loop.
frame_audio_locals(audio, frame_size, hop_size, sample_rate) ==
    LET padded == F_pad(audio, frame_size \div 2, frame_size - frame_size \div 2)
    IN  [audio |-> padded,
         num_padded_samples |-> padded.shape[2],
         frame_number |-> 0,
         frames |-> <<>>,
         timestamps |-> <<>>,
         frame_start |-> 0,
         frame_end |-> frame_size,
         frame_size |-> frame_size,
         hop_size |-> hop_size,
         sample_rate |-> sample_rate]

\* The timestamp taken after frame_number was incremented.
Timestamp_after_increment(frame_number, hop_size) ==
    [num |-> (frame_number + 1) * hop_size.num, den |-> hop_size.den]

\* Line 127: frame_number * hop_size.
Timestamp(frame_number, hop_size) ==
    [num |-> frame_number * hop_size.num, den |-> hop_size.den]

\* The frame start truncated to whole seconds before scaling.
FrameStart_whole_seconds(sample_rate, frame_number, hop_size) ==
    sample_rate * ((frame_number * hop_size.num) \div hop_size.den)

\* Line 132: int(round(sample_rate * frame_number * hop_size)).
FrameStart(sample_rate, frame_number, hop_size) ==
    round(sample_rate * frame_number * hop_size.num, hop_size.den)

\* Lines 126-133: one pass through the loop body.
LoopBody(f) ==
    LET number == f.frame_number + 1
        start == FrameStart(f.sample_rate, number, f.hop_size)
    IN  [f EXCEPT
            !.frames = Append(@, SliceDim1(f.audio, f.frame_start, f.frame_end)),
            !.timestamps = Append(@, Timestamp(f.frame_number, f.hop_size)),
            !.frame_number = number,
            !.frame_start = start,
            !.frame_end = start + f.frame_size]

\* Line 135: the loop goes round again.
LoopContinues(f) == f.frame_end <= f.num_padded_samples

\* frame_audio called by the caller itself.
FrameAudio ==
    /\ pc = "idle"
    /\ ncalls < MaxCalls
    /\ \E in \in FramingInputs, frame_size \in 1..MaxFrameSize :
          /\ call' = [NoCall EXCEPT !.op = "frame_audio", !.audio = in[1],
                                    !.frame_size = frame_size,
                                    !.sample_rate = in[2], !.hop_size = in[3]]
          /\ IF Rank(in[1]) < 2
             THEN /\ result' = Raise(IndexError_shape)
                  /\ pc' = "done"
                  /\ fa' = fa
             ELSE /\ fa' = frame_audio_locals(in[1], frame_size, in[3], in[2])
                  /\ pc' = "frame_audio"
                  /\ result' = result
    /\ UNCHANGED <<model, constructed, gae, forward_calls, ncalls>>

FrameStep ==
    /\ pc = "frame_audio"
    /\ Len(fa.frames) < MaxFrames
    /\ fa' = LoopBody(fa)
    /\ pc' = IF LoopContinues(fa') THEN "frame_audio" ELSE "frame_audio_return"
    /\ UNCHANGED <<call, model, constructed, gae, result, forward_calls, ncalls>>

\* Line 138, and the hand-over to whoever called frame_audio.
FrameAudioReturn ==
    /\ pc = "frame_audio_return"
    /\ IF ~StackOk(fa.frames)
       THEN /\ result' = Raise(RuntimeError_stack)
            /\ pc' = "done"
            /\ gae' = gae
       ELSE IF call.op = "frame_audio"
       THEN /\ result' = ReturnTensors(torch_stack(fa.frames), fa.timestamps)
            /\ pc' = "done"
            /\ gae' = gae
       ELSE /\ gae' = [gae EXCEPT !.frames = torch_stack(fa.frames),
                                  !.timestamps = fa.timestamps]
            /\ pc' = "batching"
            /\ result' = result
    /\ UNCHANGED <<call, model, constructed, fa, forward_calls, ncalls>>

\* ------------------------------------------------------- get_audio_embedding
\* Lines 197 and 199: what the driver hands to frame_audio.
DriverFrameSize(m) == m.n_fft
DriverSampleRate(m) == RandomProjectionMelEmbedding_sample_rate

\* Lines 205-208: DataLoader(dataset, batch_size, shuffle=False,
\* drop_last=False) over N rows, as the <<first, last>> row of each batch.
DataLoader(N, batch_size) ==
    [b \in 1..((N + batch_size - 1) \div batch_size) |->
        <<(b - 1) * batch_size + 1, Min(b * batch_size, N)>>]

\* batch[0] of one batch of the loader: rows first..last of the frames.
Batch(frames, range) ==
    [shape |-> <<range[2] - range[1] + 1, frames.shape[2]>>,
     device |-> frames.device,
     data |-> SubSeq(frames.data, range[1], range[2])]

\* Lines 177-187: the two checks, in the order the code makes them; NoExc
\* when both pass.
Validate_model_first(audio, m) ==
    IF ~isinstance_RandomProjectionMelEmbedding(m) THEN ValueError_model
    ELSE IF Rank(audio) # 2 THEN ValueError_audio
    ELSE NoExc

Validate(audio, m) ==
    IF Rank(audio) # 2 THEN ValueError_audio
    ELSE IF ~isinstance_RandomProjectionMelEmbedding(m) THEN ValueError_model
    ELSE NoExc

\* Lines 177-200: the two checks, model.to, and the call of frame_audio.
GetAudioEmbedding ==
    /\ pc = "idle"
    /\ ncalls < MaxCalls
    /\ \E in \in EmbeddingInputs, batch_size \in 1..MaxBatchSize :
          /\ call' = [NoCall EXCEPT !.op = "get_audio_embedding",
                                    !.audio = in[1], !.hop_size = in[2],
                                    !.batch_size = batch_size]
          /\ IF Validate(in[1], model) # NoExc
             THEN /\ result' = Raise(Validate(in[1], model))
                  /\ pc' = "done"
                  /\ UNCHANGED <<model, fa>>
             ELSE /\ model' = Module_to(model, in[1].device)
                  /\ fa' = frame_audio_locals(in[1], DriverFrameSize(model'),
                                              in[2], DriverSampleRate(model'))
                  /\ pc' = "frame_audio"
                  /\ result' = result
    /\ UNCHANGED <<constructed, gae, forward_calls, ncalls>>

\* Lines 201-212: unpack the shape, flatten, build the loader, model.eval().
Batching ==
    /\ pc = "batching"
    /\ LET flat == flatten(gae.frames)
       IN  gae' = [gae EXCEPT
                      !.audio_batches = gae.frames.shape[1],
                      !.num_frames = gae.frames.shape[2],
                      !.frame_size = gae.frames.shape[3],
                      !.frames = flat,
                      !.loader = DataLoader(flat.shape[1], call.batch_size),
                      !.pos = 0]
    /\ model' = Module_eval(model)
    /\ pc' = "embed"
    /\ UNCHANGED <<call, constructed, fa, result, forward_calls, ncalls>>

\* Line 214: the next batch of the loader goes through the model.
EmbedBatch ==
    /\ pc = "embed"
    /\ gae.pos < Len(gae.loader)
    /\ gae' = [gae EXCEPT
                  !.pos = @ + 1,
                  !.embeddings_list =
                      Append(@, forward(model, Batch(gae.frames, gae.loader[gae.pos + 1])))]
    /\ forward_calls' = forward_calls + 1
    /\ UNCHANGED <<pc, call, model, constructed, fa, result, ncalls>>

\* Lines 218-221: concatenate, unflatten, return.
Reassemble(embeddings_list, audio_batches, num_frames) ==
    unflatten(torch_cat(embeddings_list), audio_batches, num_frames)

EmbedReturn ==
    /\ pc = "embed"
    /\ gae.pos = Len(gae.loader)
    /\ result' = IF gae.embeddings_list = <<>>
                 THEN Raise(RuntimeError_cat)
                 ELSE ReturnTensors(
                          Reassemble(gae.embeddings_list, gae.audio_batches,
                                     gae.num_frames),
                          gae.timestamps)
    /\ pc' = "done"
    /\ UNCHANGED <<call, model, constructed, fa, gae, forward_calls, ncalls>>

\* ------------------------------------------------------------------ the caller
\* The caller takes what the call returned or raised; the model load_model
\* returned becomes the model it holds.
Return ==
    /\ pc = "done"
    /\ pc' = "idle"
    /\ ncalls' = ncalls + 1
    /\ IF call.op = "load_model" /\ result.kind = "return"
       THEN /\ model' = result.model
            /\ constructed' = result.model
       ELSE UNCHANGED <<model, constructed>>
    /\ call' = NoCall
    /\ fa' = FaNone
    /\ gae' = GaeNone
    /\ result' = NoResult
    /\ forward_calls' = 0

Next ==
    \/ LoadModel
    \/ FrameAudio
    \/ GetAudioEmbedding
    \/ FrameStep
    \/ FrameAudioReturn
    \/ Batching
    \/ EmbedBatch
    \/ EmbedReturn
    \/ Return

Spec == Init /\ [][Next]_vars

\* frame_audio runs synchronously: while its loop can go round, it does.
FairSpec == Spec /\ WF_vars(FrameStep)

\* ===================================================================== claims
IsRPME(m) == "RandomProjectionMelEmbedding" \in m.bases
Embedding == call.op = "get_audio_embedding"
Framing == call.op = "frame_audio"
Returned == pc = "done" /\ result.kind = "return"

\* Sample `index` (from 0) of recording r of the audio the call was given,
\* and 0 outside the recording.
OriginalSample(r, index) ==
    IF 0 <= index /\ index < call.audio.shape[2]
    THEN call.audio.data[r][index + 1]
    ELSE 0

\* The embedding of frame f of recording r fed through the model alone.
AloneEmbedding(r, f) ==
    forward(model, [shape |-> <<1, fa.frame_size>>, device |-> call.audio.device,
                    data |-> <<fa.frames[f].data[r]>>]).data[1]

ReassembledRight ==
    /\ Returned
    /\ result.tensor.shape =
           <<call.audio.shape[1], Len(fa.frames), model.embedding_size>>
    /\ \A r \in 1..call.audio.shape[1] : \A f \in 1..Len(fa.frames) :
           result.tensor.data[r][f] = AloneEmbedding(r, f)
    /\ result.timestamps = fa.timestamps

\* C1: every get_audio_embedding call on a rank-2 batch of R recordings and a
\* RandomProjectionMelEmbedding returns embeddings of shape (R, F,
\* embedding_size) whose entry [r, f] is the embedding of frame f of recording
\* r fed through the model alone, with the Framer's F and timestamps, whatever
\* the batch size.
C1_EveryBatchReassembled ==
    (pc = "done" /\ Embedding /\ Rank(call.audio) = 2 /\ IsRPME(model))
        => ReassembledRight

\* C1, for batches that hold at least one recording.
C1_NonEmptyBatchReassembled ==
    (pc = "done" /\ Embedding /\ Rank(call.audio) = 2 /\ IsRPME(model)
        /\ call.audio.shape[1] >= 1)
        => ReassembledRight

C1_NonEmptyBatchWitness ==
    /\ Returned /\ Embedding
    /\ call.audio.shape[1] = 2
    /\ Len(fa.frames) >= 3
    /\ call.batch_size = 2
    /\ Len(gae.loader) >= 3

\* C2: every frame k that frame_audio emitted (seen when its loop has ended
\* and when it has returned) for an R x S batch has
\* exactly n samples, ends inside the padded signal, and holds at [r, j] the
\* original sample round(sr*k*h) + j - floor(n/2) of recording r, or 0 when
\* that index is outside [0, S); the stacked result holds the same frames.
C2_FramesAreCentredSlices ==
    ((Framing \/ Embedding) /\ Rank(call.audio) = 2
        /\ (pc = "frame_audio_return" \/ (Returned /\ Framing))) =>
        LET R == call.audio.shape[1]
            S == call.audio.shape[2]
            n == IF Framing THEN call.frame_size ELSE fa.frame_size
            sr == IF Framing THEN call.sample_rate ELSE fa.sample_rate
            h == call.hop_size
            start(k) == round(sr * k * h.num, h.den)
        IN  /\ n >= 1
            /\ fa.frames # <<>>
            /\ \A k \in 0..(Len(fa.frames) - 1) :
                  /\ fa.frames[k + 1].shape = <<R, n>>
                  /\ start(k) + n <= S + n
                  /\ \A r \in 1..R : \A j \in 0..(n - 1) :
                        fa.frames[k + 1].data[r][j + 1]
                            = OriginalSample(r, start(k) + j - (n \div 2))
            /\ (Returned /\ Framing) =>
                  /\ result.tensor.shape = <<R, Len(fa.frames), n>>
                  /\ \A r \in 1..R : \A k \in 1..Len(fa.frames) :
                        result.tensor.data[r][k] = fa.frames[k].data[r]

C2_Witness ==
    /\ Returned /\ Framing
    /\ Rank(call.audio) = 2
    /\ call.audio.shape[1] = 2
    /\ call.audio.shape[2] = 1
    /\ call.frame_size = 3
    /\ Len(fa.frames) >= 3

\* C3: the timestamps frame_audio returns, and get_audio_embedding hands on,
\* are 0, h, 2h, ..., (F-1)h: they start at 0, increase strictly, and number
\* F >= 1, the number of frames, which is the count of k >= 0 with
\* round(sr*k*h) + n <= S + n.  48510 samples at 44100 Hz with h = 0.25 give
\* 0, 0.25, 0.5, 0.75, 1.0.
C3_Timestamps ==
    (Returned /\ (Framing \/ Embedding) /\ Rank(call.audio) = 2) =>
        LET S == call.audio.shape[2]
            n == fa.frame_size
            sr == fa.sample_rate
            h == call.hop_size
            ts == result.timestamps
            F == Len(ts)
            K == ((S + 1) * h.den) \div (sr * h.num) + 1
        IN  /\ F >= 1
            /\ F = result.tensor.shape[2]
            /\ F = Len(fa.frames)
            /\ ts[1].num = 0
            /\ \A k \in 1..F : ts[k] = [num |-> (k - 1) * h.num, den |-> h.den]
            /\ \A k \in 1..(F - 1) : ts[k].num * ts[k + 1].den < ts[k + 1].num * ts[k].den
            /\ F = Cardinality({k \in 0..K : round(sr * k * h.num, h.den) + n <= S + n})
            /\ (call.audio = ExampleAudio /\ h = Quarter /\ sr = 44100) =>
                  ts = <<[num |-> 0, den |-> 4], [num |-> 1, den |-> 4],
                         [num |-> 2, den |-> 4], [num |-> 3, den |-> 4],
                         [num |-> 4, den |-> 4]>>

C3_Witness ==
    /\ Returned /\ Embedding
    /\ call.audio = ExampleAudio
    /\ call.hop_size = Quarter
    /\ Len(result.timestamps) = 5
    /\ result.timestamps[5] = [num |-> 4, den |-> 4]

\* C4: a get_audio_embedding call whose audio is not of rank 2 has raised
\* InvalidInput at once, whatever the model: no local of frame_audio or of
\* the driver was ever set, the model was never invoked and nothing is
\* returned.
C4_BadRankRaisesFirst ==
    (Embedding /\ Rank(call.audio) # 2) =>
        /\ pc = "done"
        /\ result = Raise(InvalidInput)
        /\ fa = FaNone
        /\ gae = GaeNone
        /\ forward_calls = 0

C4_Witness ==
    /\ pc = "done" /\ Embedding
    /\ Rank(call.audio) = 3
    /\ ~IsRPME(model)
    /\ result.kind = "raise"

RejectedAtOnce ==
    /\ pc = "done"
    /\ result = Raise(TypeMismatch)
    /\ fa = FaNone
    /\ gae = GaeNone
    /\ forward_calls = 0

\* C5: with rank-2 audio, a model that does not expose the embedding contract
\* is rejected with TypeMismatch before any framing or model invocation, and
\* a model that does expose it is accepted.
C5_ContractDecides ==
    (Embedding /\ Rank(call.audio) = 2) =>
        /\ ~ExposesContract(model) => RejectedAtOnce
        /\ ExposesContract(model) => result # Raise(TypeMismatch)

\* C5, amended: with rank-2 audio, the model is accepted exactly when it is an
\* instance of RandomProjectionMelEmbedding (a subclass included); any other
\* object, one that exposes the contract's attributes included, is rejected
\* with TypeMismatch before any framing or model invocation.
C5_ClassDecides ==
    (Embedding /\ Rank(call.audio) = 2) =>
        /\ ~IsRPME(model) => RejectedAtOnce
        /\ IsRPME(model) => result # Raise(TypeMismatch)
        /\ ~ExposesContract(model) => ~IsRPME(model)

C5_Witness ==
    /\ Embedding /\ Rank(call.audio) = 2
    /\ ExposesContract(model) /\ ~IsRPME(model)
    /\ RejectedAtOnce

\* C6: a call of frame_audio itself with audio that is not 2-dimensional ends
\* in a failure (any exception is taken for the InvalidInput condition), with
\* no frames and no timestamps emitted.
C6_FramerRejectsBadRank ==
    (pc = "done" /\ Framing /\ Rank(call.audio) # 2) =>
        /\ result.kind = "raise"
        /\ fa.frames = <<>>
        /\ fa.timestamps = <<>>

\* C7: load_model with an empty path returns a freshly constructed model on
\* the device asked for; with a non-empty path it raises NotImplemented and
\* returns no model; both for every device.
C7_LoadModel ==
    (pc = "done" /\ call.op = "load_model") =>
        IF call.model_file_path = ""
        THEN /\ result.kind = "return"
             /\ IsRPME(result.model)
             /\ result.model.training
             /\ result.model.device = call.device
             /\ result.model.sample_rate = 44100
             /\ result.model.n_fft = 4096
             /\ result.model.window.args = <<4096>>
             /\ result.model.projection.args = <<0, 256, 4096>>
        ELSE /\ result = Raise(NotImplementedError_load)
             /\ result.model = NoneObject

C7_Witness ==
    /\ pc = "done" /\ call.op = "load_model"
    /\ call.model_file_path # ""
    /\ call.device = "cuda:0"
    /\ result.kind = "raise"

\* C8: once calls have run on it, the model the caller holds is in every
\* respect as it was when the caller got it.
C8_ModelUntouched ==
    (pc = "idle") => model = constructed

\* C8, amended: no step of a call changes the window, the mel filter matrix,
\* the projection matrix or any attribute of the model; a call that fails a
\* check changes nothing at all; a call that passes both checks changes only
\* the device, to that of the audio, and the training flag, to False.  (The
\* caller taking the model load_model returned holds a new object.)
C8_OnlyDeviceAndModeChange ==
    [][ \/ model' = model
        \/ pc = "done" /\ call.op = "load_model"
        \/ /\ call'.op = "get_audio_embedding"
           /\ Rank(call'.audio) = 2
           /\ IsRPME(model)
           /\ [model' EXCEPT !.training = model.training,
                             !.device = model.device] = model
           /\ model'.training => model.training
           /\ model'.device \in {model.device, call'.audio.device} ]_vars

C8_Witness ==
    /\ pc = "idle"
    /\ ncalls > 0
    /\ constructed.training /\ ~model.training
    /\ constructed.device = "cpu" /\ model.device = "cuda:0"
    /\ model.projection = constructed.projection
    /\ model.window = constructed.window
    /\ model.mel_scale = constructed.mel_scale

\* C9: the frame length and the sample rate get_audio_embedding frames with
\* are those of the model instance it was given.
C9_FramesWithInstanceValues ==
    (Embedding /\ pc = "frame_audio") =>
        /\ fa.frame_size = model.n_fft
        /\ fa.sample_rate = model.sample_rate

\* C10: the loop of frame_audio ends: whenever it is running it reaches its
\* break, after finitely many frames, and for an R x S batch it breaks with
\* the frame start past S.
C10_LoopTerminates ==
    /\ (pc = "frame_audio") ~> (pc = "frame_audio_return")
    /\ []((pc = "frame_audio_return" /\ Rank(call.audio) = 2) =>
            /\ fa.frame_start > call.audio.shape[2]
            /\ fa.frame_start
                 = round(fa.sample_rate * fa.frame_number * fa.hop_size.num,
                         fa.hop_size.den)
            /\ Len(fa.frames) = fa.frame_number)

\* A loop that ended after a frame start had repeated for consecutive k.
C10_Witness ==
    /\ pc = "frame_audio_return"
    /\ Rank(call.audio) = 2
    /\ Len(fa.frames) >= 4
    /\ \E k \in 1..3 :
          FrameStart(fa.sample_rate, k, fa.hop_size)
              = FrameStart(fa.sample_rate, k + 1, fa.hop_size)
    /\ fa.frame_start > call.audio.shape[2]

====
